---- MODULE Spec2Model ----
(***************************************************************************)
(* OmniCart seller-performance pipeline: the enrichment (left join and     *)
(* revenue), the per-seller aggregation, the overall summary and the two   *)
(* orchestrators (pipeline/pipeline.py and Pipeline.py).                   *)
(*                                                                         *)
(* Encoding.  A DataFrame is a record [cols, rows]: cols is the set of its *)
(* column names, rows the sequence of its rows in index order, each row a  *)
(* function from cols to values.  A list of dicts is a sequence of         *)
(* functions whose domains are the dicts' keys.  Money is counted in       *)
(* thousandths (price 1.99 is 1990), so that a value with more than two    *)
(* decimal places exists; round(x, 2) is rounding to a multiple of 10.     *)
(* A NaN or None cell is the value NaN; a raised exception is a record    *)
(* with the single field "raised".  A dict that keeps insertion order is  *)
(* a record [order, items].                                                *)
(***************************************************************************)
EXTENDS Integers, Sequences, FiniteSets, TLC

VARIABLES
    products,     \* the raw product records fetched or given
    users,        \* the raw user records fetched or given
    given,        \* the DataFrame a caller first handed to the analyzer
    df,           \* the enriched DataFrame (the caller's object)
    performance,  \* what analyze_seller_performance returned or raised
    summary,      \* what get_overall_summary returned or raised
    pc,           \* where the caller or Pipeline.run stands
    variant,      \* which of the two implementations is running
    stages,       \* the stages or calls made so far, in order
    result,       \* what Pipeline.run returned
    report,       \* the report file
    failed,       \* the stage whose exception ended the run, if any
    server,       \* what the API answers to each request of a fetch, in order
    requests,     \* the requests get_all_products has issued, in order
    page,         \* the page counter of get_all_products
    normalized    \* what normalize_products and normalize_users returned

apiVars == <<server, requests, page, normalized>>

vars == <<products, users, given, df, performance, summary, pc,
          variant, stages, result, report, failed, apiVars>>

\* the API client has fetched and normalized nothing
ApiIdle ==
    /\ server = <<>>
    /\ requests = <<>>
    /\ page = 0
    /\ normalized = [products |-> [list |-> <<>>], users |-> [list |-> <<>>]]

\* ------------------------------------------------------------------ bounds
MaxProducts == 2
MaxUsers == 2
MaxSellerRows == 3
MaxCategoryRows == 3

\* ------------------------------------------------------------------ values
\* A cell or a dict value is tagged with its Python type: a number, a
\* string, a dict, or NaN / None.
Num(n) == [num |-> n]
Str(s) == [str |-> s]
Dict(d) == [dict |-> d]
NaN == [nan |-> TRUE]

IsNum(x) == DOMAIN x = {"num"}
IsDict(x) == DOMAIN x = {"dict"}
IsNa(x) == x = NaN

Raise(e) == [raised |-> e]
Raised(x) == DOMAIN x = {"raised"}

EmptyDataFrame == [cols |-> {}, rows |-> <<>>]
EmptyDict == [order |-> <<>>, items |-> <<>>]

Range(s) == {s[i] : i \in DOMAIN s}

RECURSIVE SumSeq(_)
SumSeq(s) == IF s = <<>> THEN 0 ELSE s[1] + SumSeq(Tail(s))

RECURSIVE FlattenSeq(_)
FlattenSeq(ss) == IF ss = <<>> THEN <<>> ELSE ss[1] \o FlattenSeq(Tail(ss))

SelectIdx(n, P(_)) ==
    LET RECURSIVE Go(_)
        Go(i) == IF i > n THEN <<>>
                 ELSE IF P(i) THEN <<i>> \o Go(i + 1) ELSE Go(i + 1)
    IN Go(1)

\* round(x, 2) of a non-negative amount in thousandths: to the nearest
\* multiple of 10, a tie going to the even hundredth
RoundDiv(a, b) ==
    LET q == a \div b
        r == a % b
    IN IF 2 * r < b THEN q
       ELSE IF 2 * r > b THEN q + 1
       ELSE IF q % 2 = 0 THEN q ELSE q + 1

Round2(x) == 10 * RoundDiv(x, 10)

\* round(sum / n, 2) in thousandths
MeanRound2(sum, n) == 10 * RoundDiv(sum, 10 * n)

\* the strings of the model in Python's str order (by code point)
StrOrder == <<"Ann Lee", "Bob Lee", "Unknown", "Unknown Seller", "alice",
              "bob", "clothing", "electronics", "jewelery", "toys">>

\* a dict that keeps insertion order: d[k] = v replaces the value of a key
\* already there and keeps its place, else appends
DictSet(d, k, v) ==
    [order |-> IF k \in {d.order[i] : i \in DOMAIN d.order}
               THEN d.order ELSE Append(d.order, k),
     items |-> [x \in DOMAIN d.items \cup {k} |->
                   IF x = k THEN v ELSE d.items[x]]]

\* a DataFrame with column c set to v[i] in row i (df[c] = ...)
SetColumn(t, c, v(_)) ==
    [cols |-> t.cols \cup {c},
     rows |-> [i \in DOMAIN t.rows |->
                 [k \in t.cols \cup {c} |->
                     IF k = c THEN v(i) ELSE t.rows[i][k]]]]

\* DataFrame.empty: no rows or no columns
IsEmpty(t) == t.rows = <<>> \/ t.cols = {}

\* ------------------------------------------------------------ to_dataframe
\* pandas.DataFrame(list of dicts): the columns are the union of the keys,
\* a key a dict lacks is NaN in its row; DataFrame() has no column at all.
DataFrameOf(data) ==
    LET cols == UNION {DOMAIN data[i] : i \in DOMAIN data}
    IN [cols |-> cols,
        rows |-> [i \in DOMAIN data |->
                    [k \in cols |-> IF k \in DOMAIN data[i]
                                    THEN data[i][k] ELSE NaN]]]

to_dataframe(data) ==
    IF data = <<>> THEN EmptyDataFrame ELSE DataFrameOf(data)

\* ------------------------------------------------------------ pandas.merge
\* the name a right-hand column gets under suffixes=('', '_seller'): a name
\* the left frame has too is suffixed on the right, the left one is kept
Suffixed(c) ==
    CASE c = "id" -> "id_seller"
      [] c = "username" -> "username_seller"
      [] c = "email" -> "email_seller"
      [] c = "first_name" -> "first_name_seller"
      [] c = "last_name" -> "last_name_seller"
      [] c = "seller_name" -> "seller_name_seller"
      [] OTHER -> c

RightName(c, leftCols) == IF c \in leftCols THEN Suffixed(c) ELSE c

\* df[cols]: the frame restricted to cols (KeyError when one is absent)
Project(t, cs) ==
    IF ~(cs \subseteq t.cols) THEN Raise("KeyError")
    ELSE [cols |-> cs,
          rows |-> [i \in DOMAIN t.rows |-> [k \in cs |-> t.rows[i][k]]]]

\* the join keyed on the product's own id instead of its userId
MatchKeysOnProductId(left, right, left_on, right_on, i) ==
    SelectIdx(Len(right.rows),
              LAMBDA j : right.rows[j][right_on] = left.rows[i]["id"])

\* the indexes of the right rows whose key equals the key of left row i,
\* in the right frame's order (null keys match each other, as pandas does)
MatchKeys(left, right, left_on, right_on, i) ==
    SelectIdx(Len(right.rows),
              LAMBDA j : right.rows[j][right_on] = left.rows[i][left_on])

\* pd.merge(left, right, how='left', left_on, right_on, suffixes=('', '_seller')):
\* every left row in order, once per matching right row, or once with nulls
MergeLeft(left, right, left_on, right_on) ==
    IF Raised(right) THEN right
    ELSE IF left_on \notin left.cols \/ right_on \notin right.cols
    THEN Raise("KeyError")
    ELSE
    LET outCols == left.cols \cup {RightName(c, left.cols) : c \in right.cols}
        Joined(i, j) ==
            [k \in outCols |->
                IF k \in left.cols THEN left.rows[i][k]
                ELSE LET c == CHOOSE c \in right.cols : RightName(c, left.cols) = k
                     IN IF j = 0 THEN NaN ELSE right.rows[j][c]]
        RowsOf(i) ==
            LET m == MatchKeys(left, right, left_on, right_on, i)
            IN IF m = <<>> THEN <<Joined(i, 0)>>
               ELSE [n \in DOMAIN m |-> Joined(i, m[n])]
    IN [cols |-> outCols,
        rows |-> FlattenSeq([i \in DOMAIN left.rows |-> RowsOf(i)])]

\* --------------------------------------------- pipeline/data_enricher.py
user_cols == {"id", "username", "email", "first_name", "last_name"}

\* lambda x: x.get('count') if isinstance(x, dict) and 'count' in x else 0
RatingCount(x) ==
    IF IsDict(x) /\ "count" \in DOMAIN x.dict THEN x.dict["count"] ELSE Num(0)

\* price * quantity on a column pair: NaN where the price is NaN
Times(p, q) == IF IsNum(p) /\ IsNum(q) THEN Num(p.num * q.num) ELSE NaN

\* the columns of cs the frame lacks, added as None
WithMissingCols(t, cs) ==
    [cols |-> t.cols \cup cs,
     rows |-> [i \in DOMAIN t.rows |->
                 [k \in t.cols \cup cs |->
                     IF k \in t.cols THEN t.rows[i][k] ELSE NaN]]]

AddQuantity(t) ==
    IF "rating" \in t.cols
    THEN SetColumn(t, "quantity", LAMBDA i : RatingCount(t.rows[i]["rating"]))
    ELSE IF "quantity" \notin t.cols
    THEN SetColumn(t, "quantity", LAMBDA i : Num(0))
    ELSE t

AddRevenue(t) ==
    IF "price" \notin t.cols THEN Raise("KeyError")
    ELSE SetColumn(t, "revenue",
                   LAMBDA i : Times(t.rows[i]["price"], t.rows[i]["quantity"]))

enrich_product_data(products_df, users_df) ==
    LET u == WithMissingCols(users_df, user_cols)
        merged == MergeLeft(products_df, Project(u, user_cols), "userId", "id")
    IN IF Raised(merged) THEN merged
       ELSE AddRevenue(AddQuantity(
                WithMissingCols(merged,
                    {"username", "email", "first_name", "last_name"})))

\* ------------------------------------------------------- DataEnricher.py
\* pd.to_numeric(col, errors='coerce').fillna(0): a number stays, anything
\* else (NaN, a dict, a word) becomes 0
ToNumeric(x) == IF IsNum(x) THEN x ELSE Num(0)

\* lambda x: x.get('count', 0) if isinstance(x, dict) else 0
Flat_RatingCount(x) ==
    IF IsDict(x)
    THEN IF "count" \in DOMAIN x.dict THEN x.dict["count"] ELSE Num(0)
    ELSE Num(0)

\* f"{firstname} {lastname}" over the names the model draws
JoinName(f, l) ==
    CASE f = Str("Ann") /\ l = Str("Lee") -> Str("Ann Lee")
      [] f = Str("Bob") /\ l = Str("Lee") -> Str("Bob Lee")
      [] OTHER -> Str("? ?")

\* row.get('name') is a dict: its two parts joined; otherwise "Unknown"
Flat_SellerName(u, j) ==
    IF "name" \in u.cols /\ IsDict(u.rows[j]["name"])
    THEN JoinName(u.rows[j]["name"].dict["firstname"],
                  u.rows[j]["name"].dict["lastname"])
    ELSE Str("Unknown")

Flat_NameKeysPresent(u) ==
    \A j \in DOMAIN u.rows :
        ("name" \in u.cols /\ IsDict(u.rows[j]["name"]))
            => {"firstname", "lastname"} \subseteq DOMAIN u.rows[j]["name"].dict

Flat_WithPrice(t) ==
    SetColumn(t, "price",
              LAMBDA i : IF "price" \in t.cols THEN ToNumeric(t.rows[i]["price"])
                         ELSE Num(0))

Flat_WithQuantity(t) ==
    SetColumn(t, "quantity",
              LAMBDA i : IF "rating" \in t.cols
                         THEN Flat_RatingCount(t.rows[i]["rating"])
                         ELSE Num(0))

\* quantity coerced to int, then revenue = (price * quantity).round(2)
Flat_WithRevenue(t) ==
    LET q == SetColumn(t, "quantity", LAMBDA i : ToNumeric(t.rows[i]["quantity"]))
    IN SetColumn(q, "revenue",
                 LAMBDA i : Num(Round2(q.rows[i]["price"].num
                                       * q.rows[i]["quantity"].num)))

\* choice[i] is the index of the user row np.random.choice draws for
\* product row i
Flat_enrich_product_data(prods, usrs, choice) ==
    LET p0 == to_dataframe(prods)
        u0 == to_dataframe(usrs)
    IN IF IsEmpty(p0) THEN EmptyDataFrame
       ELSE
       LET p2 == Flat_WithQuantity(Flat_WithPrice(p0))
       IN IF ~IsEmpty(u0)
          THEN IF ~Flat_NameKeysPresent(u0) \/ "id" \notin u0.cols
               THEN Raise("KeyError")
               ELSE
               LET u1 == SetColumn(u0, "seller_name",
                                   LAMBDA j : Flat_SellerName(u0, j))
                   p3 == SetColumn(p2, "seller_id",
                                   LAMBDA i : u0.rows[choice[i]]["id"])
                   merged == MergeLeft(p3,
                                 Project(u1, {"id", "seller_name", "email"}),
                                 "seller_id", "id")
               IN IF Raised(merged) THEN merged ELSE Flat_WithRevenue(merged)
          ELSE Flat_WithRevenue(
                   SetColumn(SetColumn(p2, "seller_name",
                                       LAMBDA i : Str("Unknown Seller")),
                             "email", LAMBDA i : NaN))

\* --------------------------------------------- pipeline/data_analyzer.py
required_cols == {"username", "price", "revenue", "category", "title",
                  "rating", "quantity"}

\* the default a missing required column is filled with
ColumnDefault(c) ==
    IF c \in {"price", "revenue", "rating", "quantity"} THEN Num(0)
    ELSE Str("Unknown")

\* df[col] = default for every missing required column: the caller's frame
\* itself is changed
FillMissingCols(t) ==
    LET cs == t.cols \cup required_cols
    IN [cols |-> cs,
        rows |-> [i \in DOMAIN t.rows |->
                    [k \in cs |-> IF k \in t.cols THEN t.rows[i][k]
                                  ELSE ColumnDefault(k)]]]

\* the group keys of df.groupby(col, dropna=False) in iteration order:
\* the strings sorted, then NaN
GroupKeys(t, col) ==
    LET present == {t.rows[i][col] : i \in DOMAIN t.rows}
    IN SelectSeq([n \in DOMAIN StrOrder |-> Str(StrOrder[n])],
                 LAMBDA k : k \in present)
       \o (IF NaN \in present THEN <<NaN>> ELSE <<>>)

\* the index labels of the rows of one group, in frame order
GroupRows(t, col, key) ==
    SelectIdx(Len(t.rows), LAMBDA i : t.rows[i][col] = key)

AllRows(t) == [i \in DOMAIN t.rows |-> i]

\* Series.sum() over the rows idx: NaN is skipped
ColSum(t, idx, col) ==
    SumSeq([n \in DOMAIN idx |->
              IF IsNum(t.rows[idx[n]][col]) THEN t.rows[idx[n]][col].num ELSE 0])

\* the rows of idx whose cell in col is not NaN
NotNa(t, idx, col) == SelectSeq(idx, LAMBDA i : ~IsNa(t.rows[i][col]))

\* Series.mean(), rounded to 2 places: NaN is skipped, so the divisor is the
\* number of non-NaN cells; a cell that is no number raises TypeError; with
\* no cell left the mean is NaN
ColMean(t, idx, col) ==
    LET live == NotNa(t, idx, col)
    IN IF \E n \in DOMAIN live : ~IsNum(t.rows[live[n]][col])
       THEN Raise("TypeError")
       ELSE IF live = <<>> THEN NaN
       ELSE Num(MeanRound2(ColSum(t, live, col), Len(live)))

\* the label of the last row holding the maximum
IdxMaxLast(t, idx, col) ==
    LET live == NotNa(t, idx, col)
        best == CHOOSE n \in DOMAIN live :
                  /\ \A m \in DOMAIN live :
                        t.rows[live[m]][col].num <= t.rows[live[n]][col].num
                  /\ \A m \in DOMAIN live :
                        t.rows[live[m]][col].num = t.rows[live[n]][col].num
                            => m <= n
    IN live[best]

\* Series.idxmax(): the label of the first row holding the maximum
IdxMax(t, idx, col) ==
    LET live == NotNa(t, idx, col)
        best == CHOOSE n \in DOMAIN live :
                  /\ \A m \in DOMAIN live :
                        t.rows[live[m]][col].num <= t.rows[live[n]][col].num
                  /\ \A m \in DOMAIN live :
                        t.rows[live[m]][col].num = t.rows[live[n]][col].num
                            => n <= m
    IN live[best]

\* Series.unique().tolist(): the distinct values in first-seen order
UniqueList(t, idx, col) ==
    LET vals == [n \in DOMAIN idx |-> t.rows[idx[n]][col]]
        first == SelectIdx(Len(vals),
                           LAMBDA a : \A b \in 1..(a - 1) : vals[b] # vals[a])
    IN [n \in DOMAIN first |-> vals[first[n]]]

\* the dict key of a group: "Unknown Seller" if pd.isna(username)
SellerKey(username) == IF IsNa(username) THEN "Unknown Seller" ELSE username.str

\* the metrics of one group, or the exception its computation raises
SellerMetrics(t, idx) ==
    LET avg_price == ColMean(t, idx, "price")
        avg_rating == ColMean(t, idx, "rating")
    IN IF NotNa(t, idx, "revenue") = <<>> THEN Raise("ValueError")
       ELSE IF Raised(avg_price) THEN avg_price
       ELSE IF Raised(avg_rating) THEN avg_rating
       ELSE [total_revenue |-> Round2(ColSum(t, idx, "revenue")),
             product_count |-> Len(idx),
             avg_price |-> avg_price,
             categories |-> UniqueList(t, idx, "category"),
             top_product |-> t.rows[IdxMax(t, idx, "revenue")]["title"],
             avg_rating |-> avg_rating,
             total_quantity_sold |-> ColSum(t, idx, "quantity")]

\* the loop over the groups: performance_data[username] = {...}
RECURSIVE PerformanceLoop(_, _, _)
PerformanceLoop(t, keys, acc) ==
    IF keys = <<>> THEN acc
    ELSE LET m == SellerMetrics(t, GroupRows(t, "username", keys[1]))
         IN IF Raised(m) THEN m
            ELSE PerformanceLoop(t, Tail(keys),
                                 DictSet(acc, SellerKey(keys[1]), m))

\* [out: the dict returned or the exception raised, df: the caller's frame
\* as the call leaves it]
analyze_seller_performance(t) ==
    IF IsEmpty(t) THEN [out |-> EmptyDict, df |-> t]
    ELSE LET f == FillMissingCols(t)
         IN [out |-> PerformanceLoop(f, GroupKeys(f, "username"), EmptyDict),
             df |-> f]

\* the categories of groupby('category') (NaN dropped) with their sums
CategorySums(t) ==
    LET cats == {t.rows[i]["category"] : i \in DOMAIN t.rows} \ {NaN}
    IN [c \in cats |-> ColSum(t, GroupRows(t, "category", c), "revenue")]

\* the orders an ascending sort may leave the categories in
AscendingOrders(sums) ==
    {o \in [1..Cardinality(DOMAIN sums) -> DOMAIN sums] :
        /\ \A a, b \in DOMAIN o : a # b => o[a] # o[b]
        /\ \A a, b \in DOMAIN o : a < b => sums[o[a]] <= sums[o[b]]}

\* the orders sort_values(ascending=False) may leave the categories in: the
\* sort is not stable, so equal sums come in any order
DescendingOrders(sums) ==
    {o \in [1..Cardinality(DOMAIN sums) -> DOMAIN sums] :
        /\ \A a, b \in DOMAIN o : a # b => o[a] # o[b]
        /\ \A a, b \in DOMAIN o : a < b => sums[o[a]] >= sums[o[b]]}

\* .head(3).to_dict(), each value rounded
TopCategories(sums, sorted) ==
    LET top == SubSeq(sorted, 1, IF Len(sorted) < 3 THEN Len(sorted) ELSE 3)
    IN [order |-> [n \in DOMAIN top |-> top[n].str],
        items |-> [k \in {top[n].str : n \in DOMAIN top} |-> Round2(sums[Str(k)])]]

\* the count of distinct values with NaN counted as one of them
NUniqueWithNa(t, col) ==
    Cardinality({t.rows[i][col] : i \in DOMAIN t.rows})

\* Series.nunique(): the number of distinct values, NaN left out
NUnique(t, col) ==
    Cardinality({t.rows[i][col] : i \in DOMAIN t.rows} \ {NaN})

\* sorted is the order the sort left the categories in
get_overall_summary(t, sorted) ==
    IF IsEmpty(t) THEN EmptyDict
    ELSE IF ~({"revenue", "username", "category"} \subseteq t.cols)
    THEN Raise("KeyError")
    ELSE [total_revenue |-> Round2(ColSum(t, AllRows(t), "revenue")),
          total_products |-> Len(t.rows),
          active_sellers |-> NUnique(t, "username"),
          top_categories |-> TopCategories(CategorySums(t), sorted)]

\* the orders get_overall_summary's sort may produce on t
SortOutcomes(t) ==
    IF IsEmpty(t) \/ "category" \notin t.cols \/ "revenue" \notin t.cols
    THEN {<<>>}
    ELSE DescendingOrders(CategorySums(t))

\* ------------------------------------------------------- DataAnalyzer.py
\* work = df.copy() with seller_name filled with 'Unknown Seller' and
\* revenue, price and quantity coerced to numbers
Flat_Work(t) ==
    LET cs == t.cols \cup {"seller_name", "revenue", "price"}
    IN [cols |-> cs,
        rows |-> [i \in DOMAIN t.rows |->
                    [k \in cs |->
                        CASE k = "seller_name" ->
                                IF k \in t.cols /\ ~IsNa(t.rows[i][k])
                                THEN t.rows[i][k] ELSE Str("Unknown Seller")
                          [] k \in {"revenue", "price"} ->
                                IF k \in t.cols THEN ToNumeric(t.rows[i][k])
                                ELSE Num(0)
                          [] k = "quantity" -> ToNumeric(t.rows[i][k])
                          [] OTHER -> t.rows[i][k]]]]

\* the loop over sorted(revenue_series.index): one entry per seller_name
RECURSIVE Flat_ResultLoop(_, _, _)
Flat_ResultLoop(w, keys, acc) ==
    IF keys = <<>> THEN acc
    ELSE LET idx == GroupRows(w, "seller_name", keys[1])
         IN Flat_ResultLoop(w, Tail(keys),
                DictSet(acc, keys[1].str,
                    [total_revenue |-> Round2(ColSum(w, idx, "revenue")),
                     products_sold |-> IF "quantity" \in w.cols
                                       THEN ColSum(w, idx, "quantity")
                                       ELSE Len(idx),
                     avg_price |-> MeanRound2(ColSum(w, idx, "price"), Len(idx))]))

Flat_analyze_seller_performance(t) ==
    IF IsEmpty(t) THEN EmptyDict
    ELSE LET w == Flat_Work(t)
         IN Flat_ResultLoop(w, GroupKeys(w, "seller_name"), EmptyDict)

\* ------------------------------------------------------------------ inputs
TitleOf == <<"Prod A", "Prod B", "Prod C", "Prod D", "Prod E", "Prod F">>

Rating(rate, count) == Dict([rate |-> Num(rate), count |-> Num(count)])

\* a raw product record as the API returns it; its id is its position
Product(i, uid, price, category, rating) ==
    [id |-> Num(i), title |-> Str(TitleOf[i]), price |-> Num(price),
     category |-> Str(category), userId |-> uid, rating |-> rating]

\* a raw user record as the API returns it
User(id, username, first) ==
    [id |-> Num(id), username |-> Str(username),
     email |-> Str(IF username = "alice" THEN "alice@example.com"
                   ELSE "bob@example.com"),
     name |-> Dict([firstname |-> Str(first), lastname |-> Str("Lee")])]

UserDomain == {User(1, "alice", "Ann"), User(2, "alice", "Ann"),
               User(1, "bob", "Bob"), User(2, "bob", "Bob")}

SeqsUpTo(S, n) == UNION {[1..m -> S] : m \in 0..n}

UserLists == SeqsUpTo(UserDomain, MaxUsers)

\* products that differ in the seller they name
JoinFields == {<<uid, 1990, Rating(4500, 2)>> : uid \in {NaN, Num(1), Num(2)}}
\* products that differ in price and rating: a price of 0, one with three
\* decimal places (0.125), one with two (1.99); a rating that is a dict
\* with count 0 or 3, or a bare number
RevenueFields ==
    {<<Num(1), price, rating>> :
        price \in {0, 125, 1990},
        rating \in {Rating(4500, 0), Rating(4500, 3), Num(4000)}}

ProductListsOver(F) ==
    UNION {{[i \in 1..m |-> Product(i, f[i][1], f[i][2], "electronics", f[i][3])] :
                f \in [1..m -> F]} : m \in 0..MaxProducts}

EnrichInputs ==
    (ProductListsOver(JoinFields) \X UserLists)
    \cup (ProductListsOver(RevenueFields)
            \X {<<>>, <<User(1, "alice", "Ann")>>})

\* ------------------------------------------------- the enrichers, applied
\* Both enrichers on drawn lists of raw records: pc goes from "input" to
\* "enriched", variant names the enricher that ran.
InitEnrich ==
    /\ \E in \in EnrichInputs : products = in[1] /\ users = in[2]
    /\ given = EmptyDataFrame
    /\ df = EmptyDataFrame
    /\ performance = "none"
    /\ summary = "none"
    /\ pc = "input"
    /\ variant = "none"
    /\ stages = <<>>
    /\ result = "none"
    /\ report = "absent"
    /\ failed = "none"
    /\ ApiIdle

\* enricher.enrich_product_data(to_dataframe(products), to_dataframe(users))
Enrich ==
    /\ pc = "input"
    /\ df' = enrich_product_data(to_dataframe(products), to_dataframe(users))
    /\ pc' = "enriched"
    /\ variant' = "pipeline"
    /\ UNCHANGED apiVars
    /\ UNCHANGED <<products, users, given, performance, summary, stages, result,
                   report, failed>>

\* DataEnricher.py: each product's seller is drawn at random among the users
EnrichFlat ==
    /\ pc = "input"
    /\ \E choice \in [DOMAIN products -> IF users = <<>> THEN {0} ELSE DOMAIN users] :
          df' = Flat_enrich_product_data(products, users, choice)
    /\ pc' = "enriched"
    /\ variant' = "flat"
    /\ UNCHANGED apiVars
    /\ UNCHANGED <<products, users, given, performance, summary, stages, result,
                   report, failed>>

NextEnrich == Enrich \/ EnrichFlat

SpecEnrich == InitEnrich /\ [][NextEnrich]_vars

\* ------------------------------------------------- the analyzer, applied
\* an enriched row as the analyzer reads it; its title is its position
EnrichedRow(i, username, revenue, category) ==
    [title |-> Str(TitleOf[i]), username |-> username, price |-> Num(1000),
     revenue |-> Num(revenue), category |-> Str(category),
     rating |-> Num(4000), quantity |-> Num(1)]

WithoutColumn(t, c) ==
    [cols |-> t.cols \ {c},
     rows |-> [i \in DOMAIN t.rows |-> [k \in t.cols \ {c} |-> t.rows[i][k]]]]

TablesOver(F, n) ==
    UNION {{DataFrameOf([i \in 1..m |->
                            EnrichedRow(i, f[i][1], f[i][2], f[i][3])]) :
                f \in [1..m -> F]} : m \in 0..n}

\* tables that differ in their sellers: a null username, a plain one and the
\* literal "Unknown Seller"; revenues that tie, differ or are all 0
SellerFields ==
    {<<u, r, "electronics">> :
        u \in {NaN, Str("alice"), Str("Unknown Seller")}, r \in {0, 1000, 2000}}

\* tables that differ in their categories
CategoryFields ==
    {<<Str("alice"), r, c>> :
        r \in {1000, 2000},
        c \in {"clothing", "electronics", "jewelery", "toys"}}

SellerTables == TablesOver(SellerFields, MaxSellerRows)

\* tables that differ in their ratings and quantities: a rating is a number
\* or NaN (the null rate of a product without a rating)
RatedRow(i, rating, quantity) ==
    [title |-> Str(TitleOf[i]), username |-> Str("alice"), price |-> Num(1000),
     revenue |-> Num(1000 * quantity), category |-> Str("electronics"),
     rating |-> rating, quantity |-> Num(quantity)]

RatingFields == {<<r, q>> : r \in {NaN, Num(2000), Num(4000)}, q \in {1, 2}}

RatingTables ==
    UNION {{DataFrameOf([i \in 1..m |-> RatedRow(i, f[i][1], f[i][2])]) :
                f \in [1..m -> RatingFields]} : m \in 1..MaxSellerRows}

\* tables of four rows with four categories, one row each, listed in name
\* order or out of it
CategoryOrders == {<<"clothing", "electronics", "jewelery", "toys">>,
                   <<"toys", "jewelery", "clothing", "electronics">>}

FourCategoryTables ==
    {DataFrameOf([i \in 1..4 |-> EnrichedRow(i, Str("alice"), r[i], o[i])]) :
        r \in [1..4 -> {1000, 2000, 3000}], o \in CategoryOrders}

AnalyzerInputs ==
    SellerTables
    \cup {WithoutColumn(t, "username") : t \in SellerTables \ {DataFrameOf(<<>>)}}
    \cup {WithoutColumn(t, "category") :
                t \in TablesOver(SellerFields, 1) \ {DataFrameOf(<<>>)}}
    \cup TablesOver(CategoryFields, MaxCategoryRows)
    \cup FourCategoryTables
    \cup RatingTables
    \cup {EmptyDataFrame}

InitAnalyze ==
    /\ given \in AnalyzerInputs
    /\ df = given
    /\ products = <<>>
    /\ users = <<>>
    /\ performance = "none"
    /\ summary = "none"
    /\ pc = "table"
    /\ variant = "pipeline"
    /\ stages = <<>>
    /\ result = "none"
    /\ report = "absent"
    /\ failed = "none"
    /\ ApiIdle

Called(stage) == \E n \in DOMAIN stages : stages[n] = stage

\* performance = analyzer.analyze_seller_performance(df)
Analyze ==
    /\ pc = "table"
    /\ ~Called("analyze")
    /\ LET a == analyze_seller_performance(df)
       IN performance' = a.out /\ df' = a.df
    /\ stages' = Append(stages, "analyze")
    /\ UNCHANGED apiVars
    /\ UNCHANGED <<products, users, given, summary, pc, variant, result, report,
                   failed>>

\* summary = analyzer.get_overall_summary(df)
Summarize ==
    /\ pc = "table"
    /\ ~Called("summary")
    /\ \E sorted \in SortOutcomes(df) :
          summary' = get_overall_summary(df, sorted)
    /\ stages' = Append(stages, "summary")
    /\ UNCHANGED apiVars
    /\ UNCHANGED <<products, users, given, df, performance, pc, variant,
                   result, report, failed>>

\* report = DataAnalyzer().analyze_seller_performance(df) of DataAnalyzer.py,
\* by a caller that makes no other call
AnalyzeFlat ==
    /\ pc = "table"
    /\ stages = <<>>
    /\ performance' = Flat_analyze_seller_performance(df)
    /\ stages' = <<"analyze_flat">>
    /\ pc' = "flat_done"
    /\ variant' = "flat"
    /\ UNCHANGED apiVars
    /\ UNCHANGED <<products, users, given, df, summary, result, report, failed>>

NextAnalyze == Analyze \/ Summarize \/ AnalyzeFlat

SpecAnalyze == InitAnalyze /\ [][NextAnalyze]_vars

\* --------------------------------- pipeline/pipeline.py and Pipeline.py
\* a record as the repository's own pipeline test feeds it: id, price, userId
BareProduct(i, uid) == [id |-> Num(i), price |-> Num(1990), userId |-> uid]

\* what get_all_products may return: records as the API serves them, or
\* bare ones; the empty list stands for a failed or empty fetch
ProductFetches ==
    ProductListsOver(JoinFields)
    \cup UNION {{[i \in 1..m |-> BareProduct(i, f[i])] :
                    f \in [1..m -> {NaN, Num(1), Num(2)}]} : m \in 1..MaxProducts}

UserFetches == UserLists

Init ==
    /\ variant \in {"pipeline", "flat"}
    /\ products = <<>>
    /\ users = <<>>
    /\ given = EmptyDataFrame
    /\ df = EmptyDataFrame
    /\ performance = "none"
    /\ summary = "none"
    /\ pc = "fetch_products"
    /\ stages = <<>>
    /\ result = "none"
    /\ report = "absent"
    /\ failed = "none"
    /\ ApiIdle

\* run reporting success whatever happened
ReturnTrue(ok) == pc' = "done" /\ result' = "True"

\* run returns ok: the later stages are not run
Return(ok) == pc' = "done" /\ result' = (IF ok THEN "True" ELSE "False")

\* get_all_products(): an empty list makes fetch_data return {} and run
\* return False.  pipeline/api_client.py swallows every exception;
\* APIClient.py lets one that is no RequestException through to run's
\* handler.
FetchProducts ==
    /\ pc = "fetch_products"
    /\ stages' = Append(stages, "fetch_products")
    /\ \E got \in {[list |-> l] : l \in ProductFetches} \cup
                    (IF variant = "flat" THEN {Raise("ValueError")} ELSE {}) :
          /\ products' = (IF Raised(got) THEN <<>> ELSE got.list)
          /\ failed' = (IF Raised(got) THEN "fetch_products" ELSE failed)
          /\ IF Raised(got) \/ got.list = <<>>
             THEN Return(FALSE)
             ELSE pc' = "fetch_users" /\ result' = result
    /\ UNCHANGED apiVars
    /\ UNCHANGED <<users, given, df, performance, summary, variant, report>>

\* get_all_users(): an empty list is kept as [] and the run goes on
FetchUsers ==
    /\ pc = "fetch_users"
    /\ stages' = Append(stages, "fetch_users")
    /\ \E got \in {[list |-> l] : l \in UserFetches} \cup
                    (IF variant = "flat" THEN {Raise("ValueError")} ELSE {}) :
          /\ users' = (IF Raised(got) THEN <<>> ELSE got.list)
          /\ failed' = (IF Raised(got) THEN "fetch_users" ELSE failed)
          /\ IF Raised(got)
             THEN Return(FALSE)
             ELSE pc' = "enrich" /\ result' = result
    /\ UNCHANGED apiVars
    /\ UNCHANGED <<products, given, df, performance, summary, variant, report>>

\* process_data: to_dataframe and enrich_product_data; an exception or an
\* empty frame ends the run with False
EnrichStage ==
    /\ pc = "enrich"
    /\ stages' = Append(stages, "enrich")
    /\ \E choice \in [DOMAIN products ->
                        IF users = <<>> \/ variant = "pipeline" THEN {0}
                        ELSE DOMAIN users] :
          df' = IF variant = "pipeline"
                THEN enrich_product_data(to_dataframe(products),
                                         to_dataframe(users))
                ELSE Flat_enrich_product_data(products, users, choice)
    /\ given' = df'
    /\ failed' = (IF Raised(df') THEN "enrich" ELSE failed)
    /\ IF Raised(df') THEN Return(FALSE)
       ELSE IF IsEmpty(df') THEN Return(FALSE)
       ELSE pc' = "analyze" /\ result' = result
    /\ UNCHANGED apiVars
    /\ UNCHANGED <<products, users, performance, summary, variant, report>>

\* analyze_seller_performance(enriched_df); pipeline/ goes on to the overall
\* summary, Pipeline.py to the save
AnalyzeStage ==
    /\ pc = "analyze"
    /\ stages' = Append(stages, "analyze")
    /\ IF variant = "pipeline"
       THEN LET a == analyze_seller_performance(df)
            IN /\ performance' = a.out
               /\ df' = a.df
               /\ failed' = (IF Raised(a.out) THEN "analyze" ELSE failed)
               /\ IF Raised(a.out) THEN Return(FALSE)
                  ELSE pc' = "summary" /\ result' = result
       ELSE /\ performance' = Flat_analyze_seller_performance(df)
            /\ df' = df
            /\ failed' = failed
            /\ pc' = "save" /\ result' = result
    /\ UNCHANGED apiVars
    /\ UNCHANGED <<products, users, given, summary, variant, report>>

\* get_overall_summary(enriched_df), in pipeline/pipeline.py only
SummaryStage ==
    /\ pc = "summary"
    /\ stages' = Append(stages, "summary")
    /\ \E sorted \in SortOutcomes(df) :
          summary' = get_overall_summary(df, sorted)
    /\ failed' = (IF Raised(summary') THEN "summary" ELSE failed)
    /\ IF Raised(summary') THEN Return(FALSE)
       ELSE pc' = "save" /\ result' = result
    /\ UNCHANGED apiVars
    /\ UNCHANGED <<products, users, given, df, performance, variant, report>>

\* what the file is after open(output_file, 'w') and json.dump: written;
\* absent when makedirs or open fails; partial when the dump fails
save_report(io) ==
    CASE io = "ok" -> "written"
      [] io = "open_fails" -> "absent"
      [] io = "dump_fails" -> "partial"

\* save_report / the with-block of Pipeline.py: True once the file is
\* written, False when the write fails
SaveStage ==
    /\ pc = "save"
    /\ stages' = Append(stages, "save")
    /\ \E io \in {"ok", "open_fails", "dump_fails"} :
          /\ report' = save_report(io)
          /\ failed' = (IF io = "ok" THEN failed ELSE "save")
          /\ Return(io = "ok")
    /\ UNCHANGED apiVars
    /\ UNCHANGED <<products, users, given, df, performance, summary, variant>>

Next ==
    \/ FetchProducts
    \/ FetchUsers
    \/ EnrichStage
    \/ AnalyzeStage
    \/ SummaryStage
    \/ SaveStage

Spec == Init /\ [][Next]_vars

\* ------------------------------------------------------- pipeline claims
Last(q) == q[Len(q)]

IsPrefix(a, b) == Len(a) <= Len(b) /\ \A n \in DOMAIN a : a[n] = b[n]

\* the stages in the order the claim gives them; the overall summary of
\* pipeline/pipeline.py belongs to its analyze stage
RunStages == SelectSeq(stages, LAMBDA st : st # "summary")

StageOrder == <<"fetch_products", "fetch_users", "enrich", "analyze", "save">>

\* C6 as amended: the stages run in order; an empty product fetch ends the
\* run before users are fetched; a stage that raises, an empty enrichment or
\* a failed write is the last stage run, and run returns False with no
\* report written; run never raises, and returns True only once the report
\* is written.  An empty user fetch does not end the run.
C6_StopsWhereItFails ==
    /\ IsPrefix(RunStages, StageOrder)
    /\ (Called("fetch_products") /\ products = <<>>) =>
          stages = <<"fetch_products">> /\ result = "False"
    /\ failed # "none" => Last(stages) = failed /\ result = "False"
    /\ (Called("enrich") /\ (Raised(df) \/ IsEmpty(df))) =>
          Last(stages) = "enrich" /\ result = "False"
    /\ (Called("save") /\ report # "written") => result = "False"
    /\ report # "absent" => Called("save")
    /\ result = "False" => report # "written"
    /\ pc = "done" <=> result \in {"True", "False"}
    /\ result = "True" => report = "written" /\ Last(stages) = "save"

\* C6 as stated: every stage that yields an empty result, the user fetch
\* included, is the last stage run and makes run return False.
C6_StopOnEveryEmptyResult ==
    /\ C6_StopsWhereItFails
    /\ (Called("fetch_users") /\ users = <<>>) =>
          /\ Last(stages) = "fetch_users"
          /\ pc = "done" => result = "False"

\* the analysis raised: no summary, no save, no report, run returned False
C6_Witness ==
    /\ pc = "done"
    /\ failed = "analyze"
    /\ stages = <<"fetch_products", "fetch_users", "enrich", "analyze">>
    /\ result = "False"
    /\ report = "absent"

\* C7: with products and no users, pipeline/ enrichment does not raise and
\* every row has null seller fields; the seller report is the single key
\* "Unknown Seller" counting every product; the run succeeds (it returns
\* True unless the write of the report itself fails).
C7_EmptyUsersStillSucceeds ==
    (variant = "pipeline" /\ Called("fetch_users") /\ users = <<>>) =>
        /\ Called("enrich") =>
              /\ ~Raised(given)
              /\ \A n \in DOMAIN given.rows :
                    \A c \in {"username", "email", "first_name", "last_name"} :
                        IsNa(given.rows[n][c])
        /\ Called("analyze") =>
              /\ ~Raised(performance)
              /\ performance.order = <<"Unknown Seller">>
              /\ performance.items["Unknown Seller"].product_count
                    = Len(products)
        /\ pc = "done" => (result = "True" \/ Called("save"))

\* ------------------------------------------------------- enricher claims
EnrichedBy(v) == pc = "enriched" /\ variant = v

\* C1: pipeline/data_enricher.py enrich_product_data gives, for every
\* non-empty product list and every user list (several users with one id
\* included), exactly one row per product, in input order.
C1_OneRowPerProduct ==
    (EnrichedBy("pipeline") /\ products # <<>>) =>
        /\ ~Raised(df)
        /\ Len(df.rows) = Len(products)
        /\ \A i \in DOMAIN products : df.rows[i]["id"] = products[i]["id"]

UsersWithId(uid) == {j \in DOMAIN users : users[j]["id"] = uid}

\* C2: every enriched row carries the username and email of a user whose id
\* equals the row's userId, or nulls when no user has that id; and every
\* product has a row.
C2_SellerByUserId ==
    (EnrichedBy("pipeline") /\ ~Raised(df)) =>
        /\ \A i \in DOMAIN products :
              \E n \in DOMAIN df.rows : df.rows[n]["id"] = products[i]["id"]
        /\ \A n \in DOMAIN df.rows :
              LET r == df.rows[n]
                  M == UsersWithId(r["userId"])
              IN IF M = {}
                 THEN /\ IsNa(r["username"]) /\ IsNa(r["email"])
                      /\ IsNa(r["first_name"]) /\ IsNa(r["last_name"])
                 ELSE \E j \in M : /\ r["username"] = users[j]["username"]
                                   /\ r["email"] = users[j]["email"]
                                   /\ r["id_seller"] = users[j]["id"]

\* a joined table with a matched row (bob) and an unmatched one
C2_Witness ==
    /\ EnrichedBy("pipeline") /\ ~Raised(df) /\ users # <<>>
    /\ \E n \in DOMAIN df.rows : df.rows[n]["username"] = Str("bob")
    /\ \E n \in DOMAIN df.rows :
          IsNa(df.rows[n]["username"]) /\ ~IsNa(df.rows[n]["userId"])

ExpectedQuantity(r) ==
    IF IsDict(r["rating"]) /\ "count" \in DOMAIN r["rating"].dict
    THEN r["rating"].dict["count"].num ELSE 0

\* C3: in the output of either enricher every row has
\* revenue = round(price * quantity, 2), quantity being the rating count
\* (0 when the rating is no dict).
C3_RevenueRounded ==
    (pc = "enriched" /\ ~Raised(df)) =>
        \A n \in DOMAIN df.rows :
            LET r == df.rows[n]
            IN /\ r["quantity"] = Num(ExpectedQuantity(r))
               /\ r["revenue"] = Num(Round2(r["price"].num * ExpectedQuantity(r)))

\* C8: empty input gives empty output and no exception in every core
\* stage: enrich_product_data on an empty product list, and
\* analyze_seller_performance and get_overall_summary on an empty table.
C8_EmptyInEmptyOut ==
    /\ (pc = "enriched" /\ products = <<>>) => ~Raised(df) /\ IsEmpty(df)
    /\ analyze_seller_performance(EmptyDataFrame).out = EmptyDict
    /\ get_overall_summary(EmptyDataFrame, <<>>) = EmptyDict

\* ------------------------------------------------------- analyzer claims
Analyzed == Called("analyze") /\ ~IsEmpty(given) /\ ~Raised(performance)

Keys(d) == {d.order[n] : n \in DOMAIN d.order}

\* the seller key the specification gives row i of the table handed in: its
\* username, "Unknown Seller" when that is null or the column is missing
RowKey(t, i) ==
    IF "username" \notin t.cols THEN "Unknown Seller"
    ELSE SellerKey(t.rows[i]["username"])

RowsOfKey(t, k) == SelectIdx(Len(t.rows), LAMBDA i : RowKey(t, i) = k)

\* C4: the keys of the result are the distinct non-null usernames of the
\* table, plus "Unknown Seller" exactly when some row has a null username or
\* the table has no username column.
C4_KeySet ==
    Analyzed => Keys(performance) = {RowKey(given, i) : i \in DOMAIN given.rows}

\* C5: for every key k of the result, product_count[k] is the number and
\* total_revenue[k] the sum of revenue of all rows whose grouping key is k
\* (username, null as "Unknown Seller"); the counts add up to the number of
\* rows.  Stated of the tables that have a username column.
C5_SumsPerKey ==
    (Analyzed /\ "username" \in given.cols) =>
        /\ \A k \in Keys(performance) :
              /\ performance.items[k].product_count = Len(RowsOfKey(given, k))
              /\ performance.items[k].total_revenue
                    = Round2(ColSum(given, RowsOfKey(given, k), "revenue"))
        /\ SumSeq([n \in DOMAIN performance.order |->
                      performance.items[performance.order[n]].product_count])
              = Len(given.rows)

\* the group of groupby('username', dropna=False) whose metrics the result
\* holds under key k: the last one, in iteration order, that is stored as k
GroupOfKey(t, k) ==
    LET keys == GroupKeys(t, "username")
        last == CHOOSE n \in DOMAIN keys :
                  /\ SellerKey(keys[n]) = k
                  /\ \A m \in DOMAIN keys : SellerKey(keys[m]) = k => m <= n
    IN GroupRows(t, "username", keys[last])

\* C9: top_product of a seller group is the title of the first row, in
\* input order, whose revenue is the maximum of the group; it is the title
\* of a row of the group whatever the revenues are.  A group is a group of
\* the groupby: the rows that share one username value, the null ones
\* forming a group of their own.
C9_TopProductFirstMax ==
    Analyzed =>
        \A k \in Keys(performance) :
            LET idx == GroupOfKey(df, k)
            IN \E n \in DOMAIN idx :
                  /\ performance.items[k].top_product = df.rows[idx[n]]["title"]
                  /\ \A m \in DOMAIN idx :
                        df.rows[idx[m]]["revenue"].num
                            <= df.rows[idx[n]]["revenue"].num
                  /\ \A m \in 1..(n - 1) :
                        df.rows[idx[m]]["revenue"].num
                            < df.rows[idx[n]]["revenue"].num

\* a seller whose first row is below the maximum and whose last two rows
\* tie at it, and a table whose revenues are all 0
C9_Witness ==
    /\ Analyzed
    /\ Len(given.rows) = 3
    /\ "username" \in given.cols
    /\ \A i \in 1..3 : given.rows[i]["username"] = Str("alice")
    /\ given.rows[1]["revenue"] = Num(1000)
    /\ given.rows[2]["revenue"] = Num(2000)
    /\ given.rows[3]["revenue"] = Num(2000)
    /\ performance.items["alice"].top_product = Str("Prod B")

Summarized == Called("summary") /\ ~IsEmpty(df) /\ ~Raised(summary)

Min(a, b) == IF a < b THEN a ELSE b

\* C10: top_categories has min(3, number of distinct categories) entries,
\* each a category of the table with its summed revenue, in descending order
\* of that sum, and no category left out has a larger sum than one kept.
C10_TopCategories ==
    Summarized =>
        LET top == summary.top_categories
            sums == CategorySums(df)
            cats == {c.str : c \in DOMAIN sums}
        IN /\ Len(top.order) = Min(3, Cardinality(cats))
           /\ Cardinality(Keys(top)) = Len(top.order)
           /\ Keys(top) \subseteq cats
           /\ \A k \in Keys(top) : top.items[k] = Round2(sums[Str(k)])
           /\ \A a, b \in DOMAIN top.order :
                 a < b => top.items[top.order[a]] >= top.items[top.order[b]]
           /\ \A k \in Keys(top) : \A c \in cats \ Keys(top) :
                 sums[Str(c)] <= sums[Str(k)]

\* four categories, the largest sum listed first and the smallest left out
C10_Witness ==
    /\ Summarized
    /\ Cardinality(DOMAIN CategorySums(df)) = 4
    /\ Len(summary.top_categories.order) = 3
    /\ summary.top_categories.items[summary.top_categories.order[1]]
          > summary.top_categories.items[summary.top_categories.order[3]]

\* the place of a string in Python's str order
StrPos(s) == CHOOSE n \in DOMAIN StrOrder : StrOrder[n] = s

\* C11: categories with equal summed revenue are ranked by category name
\* ascending, in the order of top_categories and in the choice of the top 3,
\* so that top_categories is one fixed value for a given table.
C11_TiesByName ==
    Summarized =>
        LET top == summary.top_categories
            sums == CategorySums(df)
            cats == {c.str : c \in DOMAIN sums}
        IN /\ \A a, b \in DOMAIN top.order :
                 (a < b /\ sums[Str(top.order[a])] = sums[Str(top.order[b])])
                     => StrPos(top.order[a]) < StrPos(top.order[b])
           /\ \A k \in Keys(top) : \A c \in cats \ Keys(top) :
                 sums[Str(c)] = sums[Str(k)] => StrPos(k) < StrPos(c)

\* C12: active_sellers is the number of distinct non-null usernames of the
\* rows get_overall_summary is given (a null username counts for nothing),
\* total_products the number of rows, total_revenue the sum of revenue over
\* all rows, to 2 decimal places.
C12_SummaryCounts ==
    Summarized =>
        /\ summary.active_sellers =
              Cardinality({u \in {df.rows[i]["username"] : i \in DOMAIN df.rows} :
                              ~IsNa(u)})
        /\ summary.total_products = Len(df.rows)
        /\ summary.total_revenue =
              Round2(SumSeq([i \in DOMAIN df.rows |-> df.rows[i]["revenue"].num]))

\* three rows, one of them with a null username, two sellers counted
C12_Witness ==
    /\ Summarized
    /\ Len(df.rows) = 3
    /\ \E i \in DOMAIN df.rows : IsNa(df.rows[i]["username"])
    /\ summary.active_sellers = 2
    /\ summary.total_products = 3
    /\ summary.total_revenue = 3000

\* C13: the keys of seller_performance come in lexicographic order of the
\* seller key, the "Unknown Seller" key of the null usernames in its
\* lexicographic place.
C13_KeysLexicographic ==
    Analyzed =>
        \A a, b \in DOMAIN performance.order :
            a < b => StrPos(performance.order[a]) < StrPos(performance.order[b])

\* ------------------------------------------------ pipeline/api_client.py
\* item.get(k): the value, or None when the dict lacks the key
Get(item, k) == IF k \in DOMAIN item THEN item[k] ELSE NaN

\* the values Python treats as false in `x or {}`
Falsy(x) == IsNa(x) \/ x = Num(0) \/ x = Str("") \/ (IsDict(x) /\ DOMAIN x.dict = {})

\* x or {}
OrEmptyDict(x) == IF Falsy(x) THEN Dict(<<>>) ELSE x

\* d.get(k, default): a value that is no dict has no attribute get
AttrGet(d, k, default) ==
    IF ~IsDict(d) THEN Raise("AttributeError")
    ELSE IF k \in DOMAIN d.dict THEN d.dict[k] ELSE default

\* the record normalize_products appends for one item
NormalizedProduct(item) ==
    LET rating == OrEmptyDict(Get(item, "rating"))
        count == AttrGet(rating, "count", Num(0))
        rate == AttrGet(rating, "rate", NaN)
    IN IF Raised(count) THEN count
       ELSE [id |-> Get(item, "id"), price |-> Get(item, "price"),
             category |-> Get(item, "category"), userId |-> Get(item, "userId"),
             quantity |-> count, rating |-> rate]

\* the record normalize_users appends for one item
NormalizedUser(item) ==
    LET name == OrEmptyDict(Get(item, "name"))
        first == AttrGet(name, "firstname", NaN)
        last == AttrGet(name, "lastname", NaN)
    IN IF Raised(first) THEN first
       ELSE [email |-> Get(item, "email"), username |-> Get(item, "username"),
             first_name |-> first, last_name |-> last, id |-> Get(item, "id")]

\* what the loop of a normalizer returns, outs being what each item gives:
\* the list of the records, or the exception the first failing item raises
Collected(outs) ==
    IF \E i \in DOMAIN outs : Raised(outs[i])
    THEN outs[CHOOSE i \in DOMAIN outs :
                 /\ Raised(outs[i])
                 /\ \A j \in 1..(i - 1) : ~Raised(outs[j])]
    ELSE [list |-> outs]

normalize_products(items) ==
    Collected([i \in DOMAIN items |-> NormalizedProduct(items[i])])

normalize_users(items) ==
    Collected([i \in DOMAIN items |-> NormalizedUser(items[i])])

\* ---------------------------------------------- the normalizers, applied
\* raw product records: complete ones whose rating is a dict (whole, without
\* count, or empty), None, 0, a non-zero number or a string; one without a
\* rating key; one with nothing but its price
RawRatings == {Rating(4500, 3), Dict([rate |-> Num(4500)]), Dict(<<>>), NaN,
               Num(0), Num(4000), Str("high")}

RawProducts ==
    {[id |-> Num(1), price |-> Num(1990), category |-> Str("toys"),
      userId |-> Num(1), rating |-> r] : r \in RawRatings}
    \cup {[id |-> Num(1), price |-> Num(1990), category |-> Str("toys"),
           userId |-> Num(1)],
          [price |-> Num(1990)]}

\* raw user records: the name a dict (whole or without lastname), None or a
\* string; one without a name key; one with nothing but its id
RawNames == {Dict([firstname |-> Str("Ann"), lastname |-> Str("Lee")]),
             Dict([firstname |-> Str("Ann")]), NaN, Str("Ann Lee")}

RawUsers ==
    {[id |-> Num(1), username |-> Str("alice"),
      email |-> Str("alice@example.com"), name |-> n] : n \in RawNames}
    \cup {[id |-> Num(1), username |-> Str("alice"),
           email |-> Str("alice@example.com")],
          [id |-> Num(1)]}

NormalizeInputs ==
    (SeqsUpTo(RawProducts, MaxProducts) \X {<<>>})
    \cup ({<<>>} \X SeqsUpTo(RawUsers, MaxUsers))
    \cup (SeqsUpTo(RawProducts, 1) \X SeqsUpTo(RawUsers, 1))

InitNormalize ==
    /\ \E in \in NormalizeInputs : products = in[1] /\ users = in[2]
    /\ given = EmptyDataFrame
    /\ df = EmptyDataFrame
    /\ performance = "none"
    /\ summary = "none"
    /\ pc = "raw"
    /\ variant = "pipeline"
    /\ stages = <<>>
    /\ result = "none"
    /\ report = "absent"
    /\ failed = "none"
    /\ ApiIdle

\* products = self.normalize_products(products_raw)
NormalizeProducts ==
    /\ pc = "raw"
    /\ ~Called("normalize_products")
    /\ normalized' = [normalized EXCEPT !.products = normalize_products(products)]
    /\ stages' = Append(stages, "normalize_products")
    /\ UNCHANGED <<products, users, given, df, performance, summary, pc,
                   variant, result, report, failed, server, requests, page>>

\* users = self.normalize_users(users_raw)
NormalizeUsers ==
    /\ pc = "raw"
    /\ ~Called("normalize_users")
    /\ normalized' = [normalized EXCEPT !.users = normalize_users(users)]
    /\ stages' = Append(stages, "normalize_users")
    /\ UNCHANGED <<products, users, given, df, performance, summary, pc,
                   variant, result, report, failed, server, requests, page>>

\* Pipeline.process_data: the raw records go to the enricher as they are
EnrichRaw ==
    /\ pc = "raw"
    /\ stages = <<>>
    /\ df' = enrich_product_data(to_dataframe(products), to_dataframe(users))
    /\ stages' = <<"enrich">>
    /\ pc' = "enriched"
    /\ UNCHANGED apiVars
    /\ UNCHANGED <<products, users, given, performance, summary, variant,
                   result, report, failed>>

\* the frames of get_dataframes, pd.DataFrame(products) and
\* pd.DataFrame(users) of the normalized records, handed to the enricher
EnrichNormalized ==
    /\ pc = "raw"
    /\ Called("normalize_products") /\ Called("normalize_users")
    /\ ~Raised(normalized.products) /\ ~Raised(normalized.users)
    /\ df' = enrich_product_data(DataFrameOf(normalized.products.list),
                                 DataFrameOf(normalized.users.list))
    /\ stages' = Append(stages, "enrich")
    /\ pc' = "enriched"
    /\ UNCHANGED apiVars
    /\ UNCHANGED <<products, users, given, performance, summary, variant,
                   result, report, failed>>

NextNormalize ==
    NormalizeProducts \/ NormalizeUsers \/ EnrichRaw \/ EnrichNormalized

SpecNormalize == InitNormalize /\ [][NextNormalize]_vars

\* ----------------------------------------------------- normalizer claims
\* C14: normalize_products and normalize_users raise for no list of record
\* dicts and return one record per input record (none for an empty list); a
\* rating that is no dict gives quantity 0 and a null rating, a name that is
\* no dict gives null name parts, a missing key its default.
C14_NormalizeNeverRaises ==
    /\ Called("normalize_products") =>
          /\ ~Raised(normalized.products)
          /\ Len(normalized.products.list) = Len(products)
          /\ \A i \in DOMAIN products :
                LET out == normalized.products.list[i]
                    r == Get(products[i], "rating")
                IN /\ out.price = Get(products[i], "price")
                   /\ out.quantity =
                         (IF IsDict(r) /\ "count" \in DOMAIN r.dict
                          THEN r.dict["count"] ELSE Num(0))
                   /\ out.rating =
                         (IF IsDict(r) /\ "rate" \in DOMAIN r.dict
                          THEN r.dict["rate"] ELSE NaN)
    /\ Called("normalize_users") =>
          /\ ~Raised(normalized.users)
          /\ Len(normalized.users.list) = Len(users)
          /\ \A i \in DOMAIN users :
                LET out == normalized.users.list[i]
                    n == Get(users[i], "name")
                IN /\ out.username = Get(users[i], "username")
                   /\ out.first_name =
                         (IF IsDict(n) /\ "firstname" \in DOMAIN n.dict
                          THEN n.dict["firstname"] ELSE NaN)
                   /\ out.last_name =
                         (IF IsDict(n) /\ "lastname" \in DOMAIN n.dict
                          THEN n.dict["lastname"] ELSE NaN)

\* ------------------------------------------------ seller assignment claim
\* the id of the seller an enriched row was given: the id column of the
\* joined user, which DataEnricher.py joins on the drawn seller_id
SellerIdOf(r) == r["id_seller"]

\* C15: the seller of every enriched row is fixed by the inputs: it is the
\* user whose id is the product's userId (none when no user has that id),
\* in the output of DataEnricher.py as in that of pipeline/data_enricher.py,
\* so that two executions on the same inputs assign the same sellers.
C15_SellerFixedByUserId ==
    (pc = "enriched" /\ ~Raised(df) /\ products # <<>> /\ users # <<>>) =>
        \A n \in DOMAIN df.rows :
            LET r == df.rows[n]
            IN SellerIdOf(r) =
                  (IF UsersWithId(r["userId"]) = {} THEN NaN ELSE r["userId"])

\* ------------------------------------------------- DataAnalyzer.py claim
\* C16: DataAnalyzer.py analyze_seller_performance on a table with columns
\* username, price, revenue and quantity (no username null) returns one
\* entry per distinct username, with total_revenue the sum of that
\* username's revenue, products_sold the sum of its quantity and avg_price
\* the mean of its price.
C16_FlatPerUsername ==
    (/\ pc = "flat_done"
     /\ ~IsEmpty(given)
     /\ {"username", "price", "revenue", "quantity"} \subseteq given.cols
     /\ \A i \in DOMAIN given.rows : ~IsNa(given.rows[i]["username"])) =>
        /\ Keys(performance) =
              {given.rows[i]["username"].str : i \in DOMAIN given.rows}
        /\ \A k \in Keys(performance) :
              LET idx == GroupRows(given, "username", Str(k))
              IN /\ performance.items[k].total_revenue
                       = Round2(ColSum(given, idx, "revenue"))
                 /\ performance.items[k].products_sold
                       = ColSum(given, idx, "quantity")
                 /\ performance.items[k].avg_price
                       = MeanRound2(ColSum(given, idx, "price"), Len(idx))

\* ------------------------------------ the API clients' fetches, applied
\* The server is a script: pages[k] is its answer to the k-th products
\* request, rest its answer to every later one, users its answer to the
\* users request.  An answer is a page of size items or a failure: a
\* RequestException (connection or HTTP error) or a ValueError (a body that
\* is no JSON).
MaxPages == 2
MaxRequests == 4

limit == 2

\* item j of the answer to the k-th request
Item(k, j) == [id |-> Num(10 * k + j)]

PageAnswers == {[size |-> n] : n \in 0..2}
                 \cup {Raise("RequestException"), Raise("ValueError")}

UsersAnswers == {[list |-> <<>>], [list |-> <<User(1, "alice", "Ann")>>],
                 Raise("RequestException"), Raise("ValueError")}

Servers ==
    [pages : SeqsUpTo(PageAnswers, MaxPages),
     rest : {[size |-> 0], [size |-> 1], Raise("RequestException")},
     users : UsersAnswers]

\* response.json() of the k-th products request, or what the request raises
Answer(k) ==
    LET a == IF k <= Len(server.pages) THEN server.pages[k] ELSE server.rest
    IN IF Raised(a) THEN a ELSE [list |-> [j \in 1..a.size |-> Item(k, j)]]

InitFetch ==
    /\ variant \in {"pipeline", "flat"}
    /\ server \in Servers
    /\ requests = <<>>
    /\ page = 1
    /\ normalized = [products |-> [list |-> <<>>], users |-> [list |-> <<>>]]
    /\ products = <<>>
    /\ users = <<>>
    /\ given = EmptyDataFrame
    /\ df = EmptyDataFrame
    /\ performance = "none"
    /\ summary = "none"
    /\ pc = "get_all_products"
    /\ stages = <<>>
    /\ result = "none"
    /\ report = "absent"
    /\ failed = "none"

\* the loop carrying on after a failed request
BreaksOnEmptyOnly(answer) == ~Raised(answer) /\ answer.list = <<>>

\* the loop of get_all_products breaks on a failed request (except
\* Exception: break) and on an empty page (if not products: break)
Breaks(answer) == Raised(answer) \/ answer.list = <<>>

\* all_products.extend(products)
Extended(all_products, answer) ==
    IF Raised(answer) THEN all_products ELSE all_products \o answer.list

\* The while loop of pipeline/api_client.py get_all_products, a turn in two
\* steps: the request is sent, then its answer is handled.  The loop has no
\* bound of its own; the model follows page, requests and all_products
\* through MaxRequests turns and leaves them as they are in the turns after.
RequestPage ==
    /\ variant = "pipeline"
    /\ pc = "get_all_products"
    /\ requests' = (IF page <= MaxRequests
                    THEN Append(requests, [endpoint |-> "products",
                                           limit |-> limit, page |-> page])
                    ELSE requests)
    /\ pc' = "response"
    /\ UNCHANGED <<products, users, given, df, performance, summary, variant,
                   stages, result, report, failed, server, page, normalized>>

\* the answer to the request for page: break, or extend and go to the next
HandlePage ==
    /\ pc = "response"
    /\ LET answer == Answer(page)
       IN IF Breaks(answer)
          THEN /\ pc' = "get_all_users"
               /\ UNCHANGED <<products, page>>
          ELSE /\ products' = (IF page <= MaxRequests
                               THEN Extended(products, answer) ELSE products)
               /\ page' = (IF page <= MaxRequests THEN page + 1 ELSE page)
               /\ pc' = "get_all_products"
    /\ UNCHANGED <<users, given, df, performance, summary, variant, stages,
                   result, report, failed, server, requests, normalized>>

\* APIClient.py get_all_products: one request for /products, no paging; a
\* RequestException gives [], any other exception reaches the caller
RequestAll ==
    /\ variant = "flat"
    /\ pc = "get_all_products"
    /\ requests' = Append(requests, [endpoint |-> "products"])
    /\ LET answer == Answer(Len(requests) + 1)
       IN /\ products' = Extended(<<>>, answer)
          /\ failed' = (IF answer = Raise("ValueError") THEN "fetch_products"
                        ELSE failed)
    /\ pc' = "get_all_users"
    /\ UNCHANGED <<users, given, df, performance, summary, variant, stages,
                   result, report, server, page, normalized>>

\* get_all_users: one request; pipeline/api_client.py returns [] on every
\* exception, APIClient.py on a RequestException only
RequestUsers ==
    /\ pc = "get_all_users"
    /\ failed = "none"
    /\ requests' = Append(requests, [endpoint |-> "users"])
    /\ users' = Extended(<<>>, server.users)
    /\ failed' = (IF variant = "flat" /\ server.users = Raise("ValueError")
                  THEN "fetch_users" ELSE failed)
    /\ pc' = "fetched"
    /\ UNCHANGED <<products, given, df, performance, summary, variant, stages,
                   result, report, server, page, normalized>>

NextFetch == RequestPage \/ HandlePage \/ RequestAll \/ RequestUsers

SpecFetch == InitFetch /\ [][NextFetch]_vars

\* a call that has started goes on running: the loop takes its next turn
\* and the caller makes its next call
SpecFetchLive ==
    /\ InitFetch
    /\ [][NextFetch]_vars
    /\ WF_vars(RequestPage)
    /\ WF_vars(HandlePage)
    /\ WF_vars(RequestAll)
    /\ WF_vars(RequestUsers)

\* ----------------------------------------------------------- fetch claims
ProductRequests == SelectSeq(requests, LAMBDA r : r.endpoint = "products")

\* the answer to the k-th products request is a failure or an empty page
Stops(k) == Raised(Answer(k)) \/ Answer(k).list = <<>>

\* the items of the answers to the first n products requests, concatenated
PagesBefore(n) ==
    FlattenSeq([k \in 1..n |-> IF Raised(Answer(k)) THEN <<>> ELSE Answer(k).list])

\* the first request whose answer is an empty page or a failure
HasBreak == \E k \in 1..(MaxPages + 1) : Stops(k)

FirstBreak ==
    CHOOSE k \in 1..(MaxPages + 1) :
        Stops(k) /\ \A j \in 1..(k - 1) : ~Stops(j)

\* get_all_products has returned or raised
Fetched == pc \in {"get_all_users", "fetched"}

\* C17: APIClient.py get_all_products with page size L requests limit=L and
\* offset=0, L, 2L, ... in order, stops after the first empty page and
\* returns the non-empty pages concatenated (k pages, k+1 requests); when
\* the first request fails it returns [] after one request.
C17_FlatPaginates ==
    (variant = "flat" /\ Fetched /\ HasBreak) =>
        IF Raised(Answer(1))
        THEN failed = "none" /\ products = <<>> /\ Len(ProductRequests) = 1
        ELSE ~Raised(Answer(FirstBreak)) =>
                /\ Len(ProductRequests) = FirstBreak
                /\ \A n \in DOMAIN ProductRequests :
                      /\ DOMAIN ProductRequests[n] = {"endpoint", "limit", "offset"}
                      /\ ProductRequests[n].limit = limit
                      /\ ProductRequests[n].offset = (n - 1) * limit
                /\ products = PagesBefore(FirstBreak - 1)

\* C18: pipeline/api_client.py get_all_products requests pages 1, 2, 3, ...
\* in order, each once; it stops at the first empty page or failed request,
\* requests nothing after it, and returns the pages received before it,
\* concatenated in page order ([] when the first request fails);
\* get_all_users returns [] on any failure; neither raises.
C18_PagesInOrderUntilBreak ==
    variant = "pipeline" =>
        /\ failed = "none"
        /\ \A n \in DOMAIN ProductRequests :
              ProductRequests[n] = [endpoint |-> "products", limit |-> limit,
                                    page |-> n]
        /\ pc = "get_all_products" =>
              /\ \A k \in 1..Len(requests) : ~Stops(k)
              /\ page = Len(requests) + 1
              /\ products = PagesBefore(Len(requests))
        /\ (pc = "response" /\ page <= MaxRequests) =>
              /\ \A k \in 1..(page - 1) : ~Stops(k)
              /\ Len(requests) = page
              /\ products = PagesBefore(page - 1)
        /\ Fetched =>
              LET s == Len(ProductRequests)
              IN /\ s >= 1
                 /\ Stops(s)
                 /\ \A k \in 1..(s - 1) : ~Stops(k)
                 /\ products = PagesBefore(s - 1)
                 /\ Raised(Answer(1)) => products = <<>> /\ s = 1
        /\ pc = "fetched" =>
              /\ Len(requests) = Len(ProductRequests) + 1
              /\ requests[Len(requests)] = [endpoint |-> "users"]
              /\ users = (IF Raised(server.users) THEN <<>> ELSE server.users.list)

\* two non-empty pages, then a failed third request: three requests, the
\* two pages returned, and a failed users request giving []
C18_Witness ==
    /\ variant = "pipeline"
    /\ pc = "fetched"
    /\ Len(ProductRequests) = 3
    /\ Raised(Answer(3))
    /\ Len(products) = 3
    /\ products[1] = Item(1, 1) /\ products[3] = Item(2, 1)
    /\ Raised(server.users)
    /\ users = <<>>

\* ------------------------------------------------ performance metrics claim
\* a rating with NaN counted as 0
RatingOrZero(x) == IF IsNum(x) THEN x.num ELSE 0

\* C19: avg_rating of a seller is the mean of the ratings of all its rows, a
\* missing or NaN rating counted as 0, so that the divisor is the seller's
\* row count; total_quantity_sold is the sum of quantity over those rows.
C19_AvgRatingNaNAsZero ==
    Analyzed =>
        \A k \in Keys(performance) :
            LET idx == GroupOfKey(df, k)
            IN /\ performance.items[k].avg_rating =
                     Num(MeanRound2(
                            SumSeq([n \in DOMAIN idx |->
                                      RatingOrZero(df.rows[idx[n]]["rating"])]),
                            Len(idx)))
               /\ performance.items[k].total_quantity_sold =
                     SumSeq([n \in DOMAIN idx |-> df.rows[idx[n]]["quantity"].num])

\* ---------------------------------------------------- missing column claim
\* C20: on a non-empty table that lacks an expected column neither
\* analyze_seller_performance nor get_overall_summary raises, and
\* get_overall_summary does not whether or not analyze_seller_performance
\* was called on the table before it.
C20_MissingColumnNeverRaises ==
    (~IsEmpty(given) /\ ~(required_cols \subseteq given.cols)) =>
        /\ Called("analyze") => ~Raised(performance)
        /\ Called("summary") => ~Raised(summary)

\* ------------------------------------------------------ frame claim
\* C21: analyze_seller_performance and get_overall_summary leave the table
\* they are given as it was: after either call the caller's table has the
\* columns and the values it had before.
C21_InputsUnchanged ==
    (Called("analyze") \/ Called("summary") \/ Called("analyze_flat")) =>
        df = given

\* ---------------------------------------------------- normalizer route claim
\* C22: for a raw product whose rating is {rate: r, count: c} the enriched
\* row has quantity c and revenue price * c, whether the raw records go to
\* enrich_product_data directly or through normalize_products first.
\* Stated of at most one user, so that row i is product i.
C22_CountSurvivesNormalizer ==
    (pc = "enriched" /\ ~Raised(df) /\ Len(users) <= 1) =>
        /\ Len(df.rows) = Len(products)
        /\ \A i \in DOMAIN products :
              LET r == Get(products[i], "rating")
              IN (IsDict(r) /\ {"rate", "count"} \subseteq DOMAIN r.dict) =>
                    /\ df.rows[i]["quantity"] = r.dict["count"]
                    /\ df.rows[i]["revenue"] =
                          Num(products[i]["price"].num * r.dict["count"].num)

\* ------------------------------------------------------ termination claim
\* C23: pipeline/api_client.py get_all_products returns in the end, whatever
\* the server answers, a server whose every page is non-empty included.
C23_GetAllProductsReturns ==
    (variant = "pipeline") => <>Fetched

====
